---- MODULE Spec2Model ----
(***************************************************************************)
(* A model of multirunner's JobRunner (src/multirunner/runner.py): the     *)
(* supervisor that spawns worker processes, seeds them with input records, *)
(* reads their result lines, replaces dead workers and tears everything    *)
(* down at the end of run().  Workers (src/multirunner/handlers/python.py) *)
(* are modelled as processes that answer one line per record or die.       *)
(* Spec is the supervisor with its children, FairSpec the same with the    *)
(* supervisor, the consumer and the workers running on; SizerSpec is a     *)
(* call of JobRunner.n_procs and WorkerSpec one worker process reading its *)
(* records, each over variables of its own.                                *)
(***************************************************************************)
EXTENDS Integers, Sequences, FiniteSets, Bags, TLC

(* ------------------------------ bounds -------------------------------- *)
MaxProcs == 2
MaxInput == 4
MaxDeaths == 2
MaxInts == 2

Values == {"a", "b"}
Children == 1..(MaxProcs + MaxDeaths)
Positions == 1..MaxInput

VARIABLES
    pc,              \* where the supervisor thread is
    n_procs,         \* the worker count passed to the runner
    input,           \* the input lines, as handed to the runner
    data_stream,     \* JobRunner.data_stream: the records not yet pulled
    procs,           \* JobRunner._procs, in insertion order
    streams,         \* JobRunner.streams, in insertion order
    ready,           \* the streams select returned that loop has yet to handle
    create,          \* JobRunner.create
    signals_recvd,   \* JobRunner.signals_recvd[SIGINT]
    sigint_handler,  \* the SIGINT handler installed in the supervisor
    items_processed, \* JobRunner.items_processed
    emitted,         \* the bag of result lines gen has yielded
    result,          \* how run() ended
    status,          \* per child process: its state
    held,            \* per child: records written to its stdin, not yet answered
    outq,            \* per child: result lines written to its stdout, not yet read
    nextChild,       \* the next child process to be spawned
    deaths,          \* history: how many workers died by themselves
    lines_read,      \* history: non-empty lines read from workers' stdout
    wcount,          \* history: per input position, writes to a worker's stdin
    pushed,          \* history: position of the record pushed back and not re-pulled
    dead_held,       \* history: positions held unanswered by a worker at its death
    dead_answered,   \* history: positions answered but unread at a worker's death
    peak_live,       \* history: the largest number of live children so far
    ctl,             \* who runs: the consumer holding a yielded item, or the supervisor
    monitor_thread,  \* JobRunner.monitor_thread: none, started by run(), joined
    setup_ret,       \* what setup() returned: <<success, err>>
    handshakes,      \* history: what create_process returned to setup, in order
    sizer,           \* a call of JobRunner.n_procs: its inputs and its result
    worker,          \* a worker process of handlers/python.py on its own
    spawner,         \* a call of create_process: the SIGINT handler around the launch
    mon,             \* JobRunner.running and the monitor thread, on their own
    attrlock         \* attrlocks['_procs'] and the two threads that use the map

vars == <<pc, n_procs, input, data_stream, procs, streams, ready, create,
          signals_recvd, sigint_handler, items_processed, emitted, result,
          status, held, outq, nextChild, deaths, lines_read, wcount, pushed,
          dead_held, dead_answered, peak_live, ctl, monitor_thread,
          setup_ret, handshakes, sizer, worker, spawner, mon, attrlock>>

\* the variables of the supervisor and its children
runvars == <<pc, n_procs, input, data_stream, procs, streams, ready, create,
             signals_recvd, sigint_handler, items_processed, emitted, result,
             status, held, outq, nextChild, deaths, lines_read, wcount,
             pushed, dead_held, dead_answered, peak_live, ctl,
             monitor_thread, setup_ret, handshakes>>

(* ------------------------------ helpers ------------------------------- *)
Range(s) == {s[i] : i \in 1..Len(s)}

Max(a, b) == IF a >= b THEN a ELSE b

\* s without its element x
Without(s, x) == SelectSeq(s, LAMBDA y : y # x)

PosOf(q) == {q[i].pos : i \in 1..Len(q)}

\* a child process that exists and was neither terminated nor waited for
Live(st, c) == st[c] \in {"alive", "exited"}

LiveCount(st) == Cardinality({c \in Children : Live(st, c)})

\* the records of the input, each with its position
Records(in) == [i \in 1..Len(in) |-> [pos |-> i, line |-> in[i]]]

\* records written to worker c whose result has not been read
InFlight(c) == Len(held[c]) + Len(outq[c])

(* ------------------------------ workers ------------------------------- *)
\* handlers/python.py handle_item: the result line of one record
handle_item(item) == [data |-> item.line, pos |-> item.pos]

(* ----------------------- the supervisor's helpers --------------------- *)
\* a kill_process that neither terminates nor waits
kill_process_skipped(st, c, wait) == st

\* kill_process(proc, soft=False, wait): terminate, and reap when waiting
kill_process(st, c, wait) ==
    IF wait THEN [st EXCEPT ![c] = "reaped"]
    ELSE [st EXCEPT ![c] = IF @ = "alive" THEN "terminated" ELSE @]

RECURSIVE terminate(_, _, _)
\* terminate(soft=False, wait): kill_process for every worker of the map
terminate(st, ps, wait) ==
    IF ps = <<>> THEN st
    ELSE terminate(kill_process(st, Head(ps), wait), Tail(ps), wait)

\* write_line on a worker's stdin that is open at the other end
write_line(h, c, val) == [h EXCEPT ![c] = Append(@, val)]

\* a pull that leaves the record in the source
PullPeek(ds) == ds

\* next(self.data_stream): what is left after the pull
Pull(ds) == Tail(ds)

\* a seed that forgets the record whose write failed
PushBackLost(val, ds) == ds

\* seed's except branch: chain([val], self.data_stream)
PushBack(val, ds) == <<val>> \o ds

\* seed(stream) on the stdin of worker c; s is the state seed reads and
\* writes, canWrite tells whether c still reads its stdin.  oc is the
\* outcome: "written" (returns True), "exhausted" (returns False) or
\* "broken" (write_line raised and the exception is re-raised).
seed(s, c, canWrite) ==
    IF s.ds = <<>> THEN [s EXCEPT !.oc = "exhausted"]
    ELSE LET val == Head(s.ds)
             rest == Pull(s.ds)
         IN  IF canWrite
             THEN [ds |-> rest,
                   held |-> write_line(s.held, c, val),
                   wcount |-> [s.wcount EXCEPT ![val.pos] = @ + 1],
                   pushed |-> 0,
                   oc |-> "written"]
             ELSE [ds |-> PushBack(val, rest),
                   held |-> s.held,
                   wcount |-> s.wcount,
                   pushed |-> val.pos,
                   oc |-> "broken"]

\* the state seed works on, as it is now
SeedState == [ds |-> data_stream, held |-> held, wcount |-> wcount,
              pushed |-> pushed, oc |-> "none"]

\* a seed_procs that writes every record to the first worker
SeedTargetFirst(ps, ind) == ps[1]

\* seed_procs: the worker the loop seeds at index ind (1-based)
SeedTarget(ps, ind) == ps[ind]

RECURSIVE SeedLoop(_, _)
\* seed_procs' for loop from index ind on; n is the number of workers seeded
SeedLoop(ind, s) ==
    IF ind > Len(procs) THEN [s |-> s, n |-> ind - 1]
    ELSE LET c == SeedTarget(procs, ind)
             t == seed(s, c, status[c] = "alive")
         IN  IF t.oc = "written" THEN SeedLoop(ind + 1, t)
             ELSE [s |-> t, n |-> ind - 1]

\* a seed_procs that never deletes the workers it could not seed
SurplusKept(ps, seeded) == <<>>

\* a seed_procs that counts one worker too many as unneeded
SurplusOneMore(ps, seeded) == SubSeq(ps, Max(seeded, 1), Len(ps))

\* seed_procs: the workers deleted as unneeded, vals[-remaining:]
Surplus(ps, seeded) == SubSeq(ps, seeded + 1, Len(ps))

\* a select that does not report a stream at end of file
ReadableLineOnly(c) == outq[c] # <<>>

\* select: a stream is readable when a line is buffered or at end of file
Readable(c) == outq[c] # <<>> \/ status[c] # "alive"

\* a handle_broken_stream that does not look at the interrupts received
NoReplaceUnlessCreate == ~create

\* a handle_broken_stream that tests self.create the wrong way round
NoReplaceInverted == signals_recvd > 0 \/ create

\* handle_broken_stream: whether no replacement is attempted (line 325)
NoReplace == signals_recvd > 0 \/ ~create

(* ------------------------------- setup -------------------------------- *)
\* how the job spec can be: complete, or failing one of setup's lookups
SpecShapes == {"ok", "no exec_type", "unknown exec_type", "no exec_info"}

\* setup lines 219-257: the err returned when a lookup of the spec fails
ResolveErr(shape) ==
    [stack |-> "traceback",
     when |-> CASE shape = "no exec_type" -> "getting exec_type"
                [] shape = "unknown exec_type" -> "resolving executable/handler paths"
                [] shape = "no exec_info" -> "getting exec_info"]

\* what a worker that fails its handshake leaves on its pipes: the JSON
\* object handlers/python.py main prints after ERROR, or other text
JsonPayload == "{\"stack\": \"trace\", \"when\": \"loading code\"}"
RawPayload == "Traceback (most recent call last)"
Payloads == {JsonPayload, RawPayload, ""}

\* what create_process returns to its caller: OK with the process, or the
\* drained payload
Handshakes == {"OK"} \cup Payloads

\* json.loads: ok tells whether the text parses, val is the parsed object
json_loads(text) ==
    IF text = JsonPayload
    THEN [ok |-> TRUE, val |-> {[stack |-> "trace", when |-> "loading code"]}]
    ELSE [ok |-> FALSE, val |-> {}]

\* setup lines 272-279: err after a failed handshake; it is assigned only
\* when json.loads raises, and is None (the empty set) otherwise
HandshakeErr(payload) ==
    IF json_loads(payload).ok THEN {}
    ELSE {[stack |-> payload, when |-> "decoding error (raw provided)"]}

\* a setup that leaves the workers it spawned running
setup_terminate_none(st, ps) == st

\* setup line 287: self.terminate(soft=False)
setup_terminate(st, ps) == terminate(st, ps, FALSE)

RECURSIVE SpawnLoop(_, _, _, _, _)
\* setup's for loop, lines 264-284, from spawn i on; seen are the results of
\* create_process so far.  create_process terminates the child whose
\* handshake failed (line 58), and the loop breaks
SpawnLoop(i, hs, st, ps, seen) ==
    IF i > Len(hs)
    THEN [all_success |-> TRUE, err |-> {}, st |-> st, ps |-> ps, seen |-> seen]
    ELSE IF hs[i] = "OK"
         THEN SpawnLoop(i + 1, hs, [st EXCEPT ![i] = "alive"], Append(ps, i),
                        Append(seen, hs[i]))
         ELSE [all_success |-> FALSE, err |-> HandshakeErr(hs[i]),
               st |-> [st EXCEPT ![i] = "terminated"], ps |-> ps,
               seen |-> Append(seen, hs[i])]

\* JobRunner.setup as a function of the spec's shape and the handshakes
setup(shape, hs) ==
    IF shape # "ok"
    THEN [ok |-> FALSE, err |-> {ResolveErr(shape)}, st |-> status,
          ps |-> <<>>, seen |-> <<>>]
    ELSE LET r == SpawnLoop(1, hs, status, <<>>, <<>>)
         IN  IF r.all_success
             THEN [ok |-> TRUE, err |-> {}, st |-> r.st, ps |-> r.ps,
                   seen |-> r.seen]
             ELSE [ok |-> FALSE, err |-> r.err,
                   st |-> setup_terminate(r.st, r.ps), ps |-> <<>>,
                   seen |-> r.seen]

(* ------------------------------- Init --------------------------------- *)
\* the supervisor after JobRunner.__init__, no child spawned yet
RunnerInit ==
    /\ pc = "setup"
    /\ n_procs \in 1..MaxProcs
    /\ input \in UNION {[1..k -> Values] : k \in 0..MaxInput}
    /\ data_stream = Records(input)
    /\ procs = <<>>
    /\ streams = <<>>
    /\ ready = <<>>
    /\ create \in BOOLEAN
    /\ signals_recvd = 0
    /\ sigint_handler = "orig"
    /\ items_processed = 0
    /\ emitted = EmptyBag
    /\ result = "none"
    /\ status = [c \in Children |-> "unborn"]
    /\ held = [c \in Children |-> <<>>]
    /\ outq = [c \in Children |-> <<>>]
    /\ nextChild = 1
    /\ deaths = 0
    /\ lines_read = 0
    /\ wcount = [p \in Positions |-> 0]
    /\ pushed = 0
    /\ dead_held = {}
    /\ dead_answered = {}
    /\ peak_live = 0
    /\ ctl = "supervisor"
    /\ monitor_thread = "none"
    /\ setup_ret = <<>>
    /\ handshakes = <<>>

Init ==
    /\ RunnerInit
    /\ sizer = <<>>
    /\ worker = <<>>
    /\ spawner = <<>>
    /\ mon = <<>>
    /\ attrlock = <<>>

(* ------------------------------ workers ------------------------------- *)
\* handlers/python.py main: the worker reads a record and prints its result
WorkerHandle(c) ==
    /\ pc \in {"seed", "loop", "for"}
    /\ status[c] = "alive"
    /\ held[c] # <<>>
    /\ outq' = [outq EXCEPT ![c] = Append(@, handle_item(Head(held[c])))]
    /\ held' = [held EXCEPT ![c] = Tail(@)]
    /\ UNCHANGED <<pc, n_procs, input, data_stream, procs, streams, ready,
                   create, signals_recvd, sigint_handler, items_processed,
                   emitted, result, status, nextChild, deaths, lines_read,
                   wcount, pushed, dead_held, dead_answered, peak_live>>
    /\ UNCHANGED <<ctl, monitor_thread, setup_ret, handshakes, sizer, worker, spawner, mon, attrlock>>

\* a worker process dies by itself: its pipes close, what it held is gone
WorkerDie(c) ==
    /\ pc \in {"seed", "loop", "for"}
    /\ status[c] = "alive"
    /\ deaths < MaxDeaths
    /\ status' = [status EXCEPT ![c] = "exited"]
    /\ deaths' = deaths + 1
    /\ dead_held' = dead_held \cup PosOf(held[c])
    /\ dead_answered' = dead_answered \cup {outq[c][i].pos : i \in 1..Len(outq[c])}
    /\ UNCHANGED <<pc, n_procs, input, data_stream, procs, streams, ready,
                   create, signals_recvd, sigint_handler, items_processed,
                   emitted, result, held, outq, nextChild, lines_read,
                   wcount, pushed, peak_live>>
    /\ UNCHANGED <<ctl, monitor_thread, setup_ret, handshakes, sizer, worker, spawner, mon, attrlock>>

(* ----------------------------- supervisor ----------------------------- *)
\* JobRunner.setup: the spec lookups, then the spawn loop; shape tells
\* which lookup fails, hs what each create_process would return
Setup ==
    /\ pc = "setup"
    /\ \E shape \in SpecShapes, hs \in [1..n_procs -> Handshakes] :
         LET r == setup(shape, hs)
         IN  /\ setup_ret' = <<r.ok, r.err>>
             /\ handshakes' = r.seen
             /\ status' = r.st
             /\ procs' = r.ps
             /\ streams' = r.ps
             /\ nextChild' = Len(r.seen) + 1
             /\ peak_live' = Len(r.seen)
             /\ pc' = IF r.ok THEN "run" ELSE "failed"
    /\ UNCHANGED <<n_procs, input, data_stream, ready, create, signals_recvd,
                   sigint_handler, items_processed, emitted, result, held,
                   outq, deaths, lines_read, wcount, pushed, dead_held,
                   dead_answered>>
    /\ UNCHANGED <<ctl, monitor_thread, sizer, worker, spawner, mon, attrlock>>

\* JobRunner.run, lines 440-450: the part of run() before seed_procs
RunEnter ==
    /\ pc = "run"
    /\ items_processed' = 0
    /\ create' = TRUE
    /\ sigint_handler' = "runner"
    /\ pc' = "seed"
    /\ UNCHANGED <<n_procs, input, data_stream, procs, streams, ready,
                   signals_recvd, emitted, result, status, held, outq,
                   nextChild, deaths, lines_read, wcount, pushed, dead_held,
                   dead_answered, peak_live>>
    /\ monitor_thread' = "started"
    /\ UNCHANGED <<ctl, setup_ret, handshakes, sizer, worker, spawner, mon, attrlock>>

\* JobRunner.seed_procs, called by run(): a BrokenPipeError of seed is not
\* caught here and leaves run() through its finally block
SeedProcs ==
    /\ pc = "seed"
    /\ LET r == SeedLoop(1, SeedState)
           gone == Surplus(procs, r.n)
       IN  /\ data_stream' = r.s.ds
           /\ held' = r.s.held
           /\ wcount' = r.s.wcount
           /\ pushed' = r.s.pushed
           /\ IF r.s.oc = "broken"
              THEN /\ pc' = "cleanup"
                   /\ result' = "error"
                   /\ UNCHANGED <<procs, streams, status>>
              ELSE /\ pc' = "loop"
                   /\ status' = terminate(status, gone, TRUE)
                   /\ procs' = SelectSeq(procs, LAMBDA c : c \notin Range(gone))
                   /\ streams' = SelectSeq(streams, LAMBDA c : c \notin Range(gone))
                   /\ UNCHANGED result
    /\ UNCHANGED <<n_procs, input, ready, create, signals_recvd,
                   sigint_handler, items_processed, emitted, outq, nextChild,
                   deaths, lines_read, dead_held, dead_answered, peak_live>>
    /\ UNCHANGED <<ctl, monitor_thread, setup_ret, handshakes, sizer, worker, spawner, mon, attrlock>>

\* JobRunner.loop, lines 348-352, with gen's handling of IterationCompleted:
\* no stream left ends the iteration; otherwise select blocks until some
\* stream is readable and returns the readable ones
Loop ==
    /\ pc = "loop"
    /\ \/ /\ streams = <<>>
          /\ pc' = "cleanup"
          /\ result' = "completed"
          /\ UNCHANGED ready
       \/ /\ streams # <<>>
          /\ \E c \in Range(streams) : Readable(c)
          /\ ready' = SelectSeq(streams, Readable)
          /\ pc' = "for"
          /\ UNCHANGED result
    /\ ctl' = "supervisor"
    /\ UNCHANGED <<n_procs, input, data_stream, procs, streams, create,
                   signals_recvd, sigint_handler, items_processed, emitted,
                   status, held, outq, nextChild, deaths, lines_read, wcount,
                   pushed, dead_held, dead_answered, peak_live>>
    /\ UNCHANGED <<monitor_thread, setup_ret, handshakes, sizer, worker, spawner, mon, attrlock>>

\* a loop whose empty select ends the iteration
AfterTimeoutEnds == "cleanup"

\* loop lines 352-353 and gen's while True: where the supervisor is after a
\* select that returned no stream
AfterTimeout == "loop"

\* JobRunner.loop with a timeout, line 352: select returns an empty list
\* when no stream became readable; the for loop has nothing to do and gen
\* calls loop again
Timeout ==
    /\ pc = "loop"
    /\ streams # <<>>
    /\ \A c \in Range(streams) : ~Readable(c)
    /\ pc' = AfterTimeout
    /\ ctl' = "supervisor"
    /\ UNCHANGED <<n_procs, input, data_stream, procs, streams, ready, create,
                   signals_recvd, sigint_handler, items_processed, emitted,
                   result,
                   status, held, outq, nextChild, deaths, lines_read, wcount,
                   pushed, dead_held, dead_answered, peak_live>>
    /\ UNCHANGED <<monitor_thread, setup_ret, handshakes, sizer, worker, spawner, mon, attrlock>>

\* loop line 356-357 and gen lines 431-433: a non-empty item is yielded
Yield(out) ==
    /\ emitted' = IF out # <<>> THEN emitted (+) SetToBag({out[1]}) ELSE emitted
    /\ items_processed' = items_processed + Len(out)
    /\ ctl' = IF out # <<>> THEN "consumer" ELSE "supervisor"

\* a handle_broken_stream that goes on replacing after a failed spawn
CreateAfterFailedSpawnKept == TRUE

\* handle_broken_stream lines 337-338: self.create after a failed spawn
CreateAfterFailedSpawn == FALSE

\* JobRunner.handle_broken_stream for worker c; t is the state seed left,
\* after is where loop goes on when no exception escapes
HandleBroken(c, t, after) ==
    LET st1 == kill_process(status, c, TRUE)
        ps1 == Without(procs, c)
        ss1 == Without(streams, c)
        new == nextChild
        up == [st1 EXCEPT ![new] = "alive"]
    IN  \/ /\ NoReplace
           /\ status' = st1
           /\ procs' = ps1
           /\ streams' = ss1
           /\ data_stream' = t.ds
           /\ pushed' = t.pushed
           /\ pc' = after
           /\ ready' = Tail(ready)
           /\ UNCHANGED <<create, nextChild, peak_live, held, wcount, deaths,
                          result, signals_recvd, monitor_thread>>
        \/ \* the replacement's handshake fails: create_process terminates it
           /\ ~NoReplace
           /\ new \in Children
           /\ status' = [st1 EXCEPT ![new] = "terminated"]
           /\ procs' = ps1
           /\ streams' = ss1
           /\ create' = CreateAfterFailedSpawn
           /\ nextChild' = new + 1
           /\ peak_live' = Max(peak_live, LiveCount(up))
           /\ data_stream' = t.ds
           /\ pushed' = t.pushed
           /\ pc' = after
           /\ ready' = Tail(ready)
           /\ UNCHANGED <<held, wcount, deaths, result, signals_recvd,
                          monitor_thread>>
        \/ \* the replacement is up and reads its stdin when seed writes
           /\ ~NoReplace
           /\ new \in Children
           /\ LET u == seed(t, new, TRUE)
              IN  /\ data_stream' = u.ds
                  /\ pushed' = u.pushed
                  /\ held' = u.held
                  /\ wcount' = u.wcount
                  /\ IF u.oc = "written"
                     THEN /\ status' = up
                          /\ procs' = Append(ps1, new)
                          /\ streams' = Append(ss1, new)
                     ELSE /\ status' = kill_process(up, new, TRUE)
                          /\ procs' = ps1
                          /\ streams' = ss1
           /\ nextChild' = new + 1
           /\ peak_live' = Max(peak_live, LiveCount(up))
           /\ pc' = after
           /\ ready' = Tail(ready)
           /\ UNCHANGED <<create, deaths, result, signals_recvd,
                          monitor_thread>>
        \/ \* the replacement dies after its handshake: seed's write raises
           \* BrokenPipeError, which nothing in loop, gen or run catches
           /\ ~NoReplace
           /\ new \in Children
           /\ deaths < MaxDeaths
           /\ t.ds # <<>>
           /\ LET u == seed(t, new, FALSE)
              IN  /\ data_stream' = u.ds
                  /\ pushed' = u.pushed
                  /\ held' = u.held
                  /\ wcount' = u.wcount
           /\ status' = [st1 EXCEPT ![new] = "exited"]
           /\ procs' = ps1
           /\ streams' = ss1
           /\ deaths' = deaths + 1
           /\ nextChild' = new + 1
           /\ peak_live' = Max(peak_live, LiveCount(up))
           /\ pc' = "cleanup"
           /\ result' = "error"
           /\ ready' = <<>>
           /\ UNCHANGED <<create, signals_recvd, monitor_thread>>
        \/ \* SIGINT arrives while create_process waits for the replacement's
           \* handshake (line 46): handle_sigint raises KeyboardInterrupt out
           \* of readline, the new process is in no map and keeps running
           /\ ~NoReplace
           /\ new \in Children
           /\ sigint_handler = "runner"
           /\ signals_recvd < MaxInts
           /\ signals_recvd' = signals_recvd + 1
           /\ status' = IF signals_recvd' > 1 THEN terminate(up, ps1, FALSE)
                        ELSE up
           /\ UNCHANGED monitor_thread
           /\ procs' = ps1
           /\ streams' = ss1
           /\ nextChild' = new + 1
           /\ peak_live' = Max(peak_live, LiveCount(up))
           /\ data_stream' = t.ds
           /\ pushed' = t.pushed
           /\ pc' = "cleanup"
           /\ result' = "interrupted"
           /\ ready' = <<>>
           /\ UNCHANGED <<create, held, wcount, deaths>>

\* one round of loop's for statement, lines 353-359: handle_stream on the
\* next ready stream, the yield of its line, or handle_broken_stream when
\* handle_stream raised BrokenPipeError (the line read is then dropped)
LoopStep ==
    /\ pc = "for"
    /\ ready # <<>>
    /\ LET c == Head(ready)
           hasLine == outq[c] # <<>>
           out == IF hasLine THEN <<Head(outq[c])>> ELSE <<>>
           t == seed(SeedState, c, status[c] = "alive")
           after == IF Tail(ready) = <<>> THEN "loop" ELSE "for"
       IN  /\ c \in Range(procs)
           /\ Readable(c)
           /\ outq' = IF hasLine THEN [outq EXCEPT ![c] = Tail(@)] ELSE outq
           /\ lines_read' = lines_read + Len(out)
           /\ \/ /\ t.oc = "written"
                 /\ data_stream' = t.ds
                 /\ held' = t.held
                 /\ wcount' = t.wcount
                 /\ pushed' = t.pushed
                 /\ Yield(out)
                 /\ pc' = after
                 /\ ready' = Tail(ready)
                 /\ UNCHANGED <<procs, streams, status, create, nextChild,
                                peak_live, deaths, result, signals_recvd,
                                monitor_thread>>
              \/ /\ t.oc = "exhausted"
                 \* proc.stdin.close(), kill_process(wait=True), del
                 /\ status' = kill_process(status, c, TRUE)
                 /\ procs' = Without(procs, c)
                 /\ streams' = Without(streams, c)
                 /\ Yield(out)
                 /\ pc' = after
                 /\ ready' = Tail(ready)
                 /\ UNCHANGED <<data_stream, held, wcount, pushed, create,
                                nextChild, peak_live, deaths, result,
                                signals_recvd, monitor_thread>>
              \/ /\ t.oc = "broken"
                 /\ HandleBroken(c, t, after)
                 /\ ctl' = "supervisor"
                 /\ UNCHANGED <<emitted, items_processed>>
    /\ UNCHANGED <<n_procs, input, sigint_handler, dead_held, dead_answered>>
    /\ UNCHANGED <<setup_ret, handshakes, sizer, worker, spawner, mon, attrlock>>

\* run's finally block, lines 457-458
Cleanup ==
    /\ pc = "cleanup"
    /\ status' = terminate(status, procs, TRUE)
    /\ procs' = <<>>
    /\ streams' = <<>>
    /\ pc' = "restore"
    /\ UNCHANGED <<n_procs, input, data_stream, ready, create, signals_recvd,
                   sigint_handler, items_processed, emitted, result, held,
                   outq, nextChild, deaths, lines_read, wcount, pushed,
                   dead_held, dead_answered, peak_live>>
    /\ UNCHANGED <<ctl, monitor_thread, setup_ret, handshakes, sizer, worker, spawner, mon, attrlock>>

\* run's finally block, lines 461-462
Restore ==
    /\ pc = "restore"
    /\ sigint_handler' = "orig"
    /\ pc' = "stopmon"
    /\ UNCHANGED <<n_procs, input, data_stream, procs, streams, ready, create,
                   signals_recvd, items_processed, emitted, result, status,
                   held, outq, nextChild, deaths, lines_read, wcount, pushed,
                   dead_held, dead_answered, peak_live>>
    /\ UNCHANGED <<ctl, monitor_thread, setup_ret, handshakes, sizer, worker, spawner, mon, attrlock>>

\* run's finally block, lines 463-465: kill_monitoring_thread(wait=True)
\* clears running and joins the thread
StopMonitor ==
    /\ pc = "stopmon"
    /\ monitor_thread' = "joined"
    /\ pc' = "done"
    /\ UNCHANGED <<n_procs, input, data_stream, procs, streams, ready, create,
                   signals_recvd, sigint_handler, items_processed, emitted,
                   result, status, held, outq, nextChild, deaths, lines_read,
                   wcount, pushed, dead_held, dead_answered, peak_live>>
    /\ UNCHANGED <<ctl, setup_ret, handshakes, sizer, worker, spawner, mon, attrlock>>

\* JobRunner.handle_sigint behind utils.signal_handler: count the signal,
\* terminate every worker of the map from the second one on, raise
\* KeyboardInterrupt in the supervisor thread (kill_monitoring_thread()
\* without wait joins nothing and leaves running as it was).  Raised in the generator or uncaught by the consumer
\* it leaves run() through its finally block; raised inside the finally
\* block it cuts that block short; raised in the consumer's own code after
\* a yield, the consumer may catch it and go on iterating
Sigint ==
    /\ sigint_handler = "runner"
    /\ pc \in {"seed", "loop", "for", "cleanup", "restore"}
    /\ signals_recvd < MaxInts
    /\ signals_recvd' = signals_recvd + 1
    /\ status' = IF signals_recvd' > 1 THEN terminate(status, procs, FALSE)
                 ELSE status
    /\ UNCHANGED monitor_thread
    /\ \/ /\ pc' = IF pc \in {"seed", "loop", "for"} THEN "cleanup" ELSE "done"
          /\ result' = "interrupted"
          /\ ready' = <<>>
          /\ ctl' = "supervisor"
       \/ /\ pc \in {"loop", "for"}
          /\ ctl = "consumer"
          /\ UNCHANGED <<pc, result, ready, ctl>>
    /\ UNCHANGED <<n_procs, input, data_stream, procs, streams, create,
                   sigint_handler, items_processed, emitted, held, outq,
                   nextChild, deaths, lines_read, wcount, pushed, dead_held,
                   dead_answered, peak_live>>
    /\ UNCHANGED <<setup_ret, handshakes, sizer, worker, spawner, mon, attrlock>>

Next ==
    \/ Setup
    \/ RunEnter
    \/ SeedProcs
    \/ Loop
    \/ LoopStep
    \/ Cleanup
    \/ Restore
    \/ StopMonitor
    \/ Sigint
    \/ Timeout
    \/ \E c \in Children : WorkerHandle(c)
    \/ \E c \in Children : WorkerDie(c)

Spec == Init /\ [][Next]_vars

(* ---------------------------- type invariant -------------------------- *)
TypeOK ==
    /\ pc \in {"setup", "failed", "run", "seed", "loop", "for", "cleanup",
               "restore", "stopmon", "done"}
    /\ Range(procs) \subseteq Children
    /\ status \in [Children -> {"unborn", "alive", "exited", "terminated",
                                "reaped"}]
    /\ result \in {"none", "completed", "interrupted", "error"}
    /\ ctl \in {"supervisor", "consumer"}
    /\ monitor_thread \in {"none", "started", "joined"}
    /\ setup_ret \in {<<>>} \cup (BOOLEAN \X SUBSET [stack : STRING, when : STRING])
    /\ Len(handshakes) <= n_procs

(* ------------------------- derived quantities ------------------------- *)
\* how many emitted results carry the data value v
EmittedCount(v) ==
    LET S == {r \in BagToSet(emitted) : r.data = v}
    IN  BagCardinality([r \in S |-> emitted[r]])

\* how many input lines are v
InputCount(v) == Cardinality({i \in DOMAIN input : input[i] = v})

\* the input positions whose result was emitted
EmittedPos == {r.pos : r \in BagToSet(emitted)}

RECURSIVE SumInFlight(_)
SumInFlight(ps) ==
    IF ps = <<>> THEN 0 ELSE InFlight(Head(ps)) + SumInFlight(Tail(ps))

\* the supervisor is blocked in loop's select
InSelect == pc = "loop" /\ streams # <<>>

(* ------------------------------- claims ------------------------------- *)
\* C1: no worker ever has more than one record in flight (written to it,
\* result not yet read), so the records in flight in the workers of the
\* supervisor's map never outnumber those workers.
C1_OneInFlight ==
    /\ \A c \in Children : InFlight(c) <= 1
    /\ SumInFlight(procs) <= Len(procs)

\* C1 witness: a single worker that was written its second record after its
\* first result line was read
C1_Witness ==
    /\ n_procs = 1
    /\ deaths = 0
    /\ lines_read = 1
    /\ procs # <<>>
    /\ InFlight(procs[1]) = 1
    /\ wcount[2] = 1

\* C2: whenever the supervisor blocks in the select of loop, every worker
\* of the map has exactly one record in flight.
C2_ExactlyOneAtSelect ==
    InSelect => \A c \in Range(procs) : InFlight(c) = 1

\* C2 witness: blocked in select with two workers, one of them a replacement
\* inserted by handle_broken_stream, after a result line was read
C2_Witness ==
    /\ InSelect
    /\ Len(procs) = 2
    /\ lines_read >= 1
    /\ \E c \in Range(procs) : c > n_procs

\* C3: the emitted data values form a sub-multiset of the input: every
\* emitted result is the result of an input record, carries that record's
\* line, and no input record has more than one emitted result.
C3_SubMultiset ==
    /\ \A v \in Values : EmittedCount(v) <= InputCount(v)
    /\ \A r \in BagToSet(emitted) :
         /\ r.pos \in DOMAIN input
         /\ r.data = input[r.pos]
         /\ CopiesIn(r, emitted) = 1

\* C3 witness: a finished run over three equal input lines with one worker
\* that died with the second record in flight; the third record was pushed
\* back and its result came from the replacement
C3_Witness ==
    /\ pc = "done"
    /\ result = "completed"
    /\ n_procs = 1
    /\ input = <<"a", "a", "a">>
    /\ dead_held = {2}
    /\ EmittedPos = {1, 3}
    /\ EmittedCount("a") = 2

\* the emitted results are exactly the results of all input records
AllEmitted ==
    /\ EmittedPos = DOMAIN input
    /\ \A v \in Values : EmittedCount(v) = InputCount(v)

\* run() has ended and no interrupt was received
EndedUninterrupted == pc = "done" /\ signals_recvd = 0

\* C4 as stated: at the end of a run that was not interrupted, every input
\* record has its result emitted if and only if no worker died.  (Stated
\* for a non-empty input: with no input record there is nothing to lose.)
C4_Original ==
    EndedUninterrupted /\ input # <<>> => (AllEmitted <=> deaths = 0)

\* C4 as amended: at the end of a run that was not interrupted, if no
\* worker died then the run completed and every input record has its
\* result emitted; and if a worker died while it held a record it had not
\* answered, some input record has no emitted result.
C4_EqualIfNoDeath ==
    EndedUninterrupted =>
        /\ deaths = 0 => (result = "completed" /\ AllEmitted)
        /\ dead_held # {} => ~AllEmitted

\* C4 witness: a completed run of two workers over three records without
\* any death, all three results emitted
C4_Witness ==
    /\ EndedUninterrupted
    /\ result = "completed"
    /\ deaths = 0
    /\ n_procs = 2
    /\ Len(input) = 3
    /\ AllEmitted

\* C5: every non-empty line read from a worker's stdout in the main loop is
\* emitted and counted in items_processed, whatever the re-seed does.
C5_EveryLineEmitted ==
    /\ items_processed = lines_read
    /\ BagCardinality(emitted) = lines_read

\* C6: a record whose write failed is back at the head of the source and
\* the records behind it keep their order: the source is always the tail of
\* the input that starts after the records written so far, every record
\* before that tail was written exactly once, and a record pushed back and
\* not pulled again is the head of the source.
C6_PushBackAtHead ==
    LET recs == Records(input)
        k == Len(input) - Len(data_stream)
    IN  /\ k >= 0
        /\ data_stream = SubSeq(recs, k + 1, Len(input))
        /\ \A p \in DOMAIN input : wcount[p] = IF p <= k THEN 1 ELSE 0
        /\ pushed # 0 => data_stream = SubSeq(recs, pushed, Len(input))

\* C6 witness: the write of the third of four records failed, no
\* replacement was seeded, and a surviving worker is about to pull
C6_Witness ==
    /\ pushed = 3
    /\ Len(data_stream) = 2
    /\ pc \in {"loop", "for"}
    /\ procs # <<>>

\* records in flight (written, result not read) in a worker when it died
DeadInFlight == dead_held \cup dead_answered

\* the scenario of C7: one worker, four inputs, the worker died holding the
\* third, its replacement came up, and the run was not interrupted
C7_Scenario ==
    /\ EndedUninterrupted
    /\ n_procs = 1
    /\ Len(input) = 4
    /\ deaths = 1
    /\ dead_held = {3}
    /\ create

\* C7 as stated: a record in flight in a worker when it died is never
\* written again and never emitted; in the scenario results 1, 2 and 4 are
\* emitted and items_processed ends at 3.
C7_Original ==
    /\ \A p \in DeadInFlight : wcount[p] = 1 /\ p \notin EmittedPos
    /\ C7_Scenario =>
         (result = "completed" /\ EmittedPos = {1, 2, 4} /\ items_processed = 3)

\* C7 as amended: a record in flight in a worker when it died is never
\* written again, and it is never emitted unless the worker had already
\* written its result line before it died; the scenario is as stated.
C7_NoRetry ==
    /\ \A p \in DeadInFlight : wcount[p] = 1
    /\ \A p \in dead_held : p \notin EmittedPos
    /\ C7_Scenario =>
         (result = "completed" /\ EmittedPos = {1, 2, 4} /\ items_processed = 3)

\* C7 witness: the scenario, at its end
C7_Witness ==
    /\ C7_Scenario
    /\ items_processed = 3
    /\ EmittedPos = {1, 2, 4}

\* C8: a worker's death is never fatal: no run ends with an error reaching
\* the caller of run().
C8_DeathNonFatal ==
    pc = "done" /\ signals_recvd = 0 => result = "completed"

\* every child process ever spawned
Spawned == {c \in Children : status[c] # "unborn"}

\* C9: when run() has exited, every spawned child process was terminated
\* and waited for and the worker map is empty.
C9_NoOrphans ==
    pc = "done" =>
        /\ procs = <<>>
        /\ streams = <<>>
        /\ \A c \in Spawned : status[c] = "reaped"

\* C10: the live child processes never outnumber the worker count, also
\* right after a replacement was spawned; the map never holds more than
\* n_procs workers, and every replacement spawned stands for one worker
\* that was terminated and waited for.
C10_AtMostN ==
    /\ LiveCount(status) <= n_procs
    /\ peak_live <= n_procs
    /\ Len(procs) <= n_procs
    /\ pc \notin {"setup", "failed"} =>
         (nextChild - 1) - n_procs <=
             Cardinality({c \in Children : status[c] = "reaped"})

\* C10 witness: two workers, one of them a replacement, both alive
C10_Witness ==
    /\ n_procs = 2
    /\ LiveCount(status) = 2
    /\ peak_live = 2
    /\ \E c \in Range(procs) : c > n_procs /\ status[c] = "alive"

(* ------------------------------ C12, C13 ------------------------------ *)
\* the spawns of setup whose handshake failed, by their place in the loop
FailedSpawns == {i \in DOMAIN handshakes : handshakes[i] # "OK"}

\* C12: if a spawn of setup fails its handshake, setup attempts no further
\* spawn, hard-terminates every worker spawned before it, leaves the worker
\* map and the stream map empty and returns failure; no worker is left
\* running after a failed setup.
C12_FailedSetup ==
    FailedSpawns # {} =>
        /\ FailedSpawns = {Len(handshakes)}
        /\ Spawned = DOMAIN handshakes
        /\ \A c \in Spawned : status[c] = "terminated"
        /\ procs = <<>>
        /\ streams = <<>>
        /\ setup_ret # <<>>
        /\ setup_ret[1] = FALSE
        /\ pc = "failed"

\* C12 witness: the second of two spawns failed its handshake, the first
\* worker was up and has been terminated
C12_Witness ==
    /\ n_procs = 2
    /\ handshakes # <<>>
    /\ handshakes[1] = "OK"
    /\ FailedSpawns = {2}
    /\ status[1] = "terminated"
    /\ pc = "failed"

\* C13: every failure returned by setup is a pair (False, err) in which err
\* is an object with a stack and a non-empty when: the parsed object for a
\* handshake payload that parses as JSON, {stack: <raw payload>, when:
\* 'decoding error (raw provided)'} for one that does not, and an object
\* naming the failing step for a spec resolution error.
C13_ErrObject ==
    pc = "failed" =>
        /\ setup_ret[1] = FALSE
        /\ \E e \in setup_ret[2] : e.when # ""
        /\ \A i \in FailedSpawns :
             setup_ret[2] =
                 IF json_loads(handshakes[i]).ok
                 THEN json_loads(handshakes[i]).val
                 ELSE {[stack |-> handshakes[i],
                        when |-> "decoding error (raw provided)"]}
        /\ FailedSpawns = {} =>
             \E e \in setup_ret[2] :
                 e.when \in {"getting exec_type",
                             "resolving executable/handler paths",
                             "getting exec_info"}

(* -------------------------------- C14 --------------------------------- *)
\* the state right after a seed_procs that returned, for n workers and a
\* source of k records: the first min(k, n) workers hold one record each,
\* the others were terminated, waited for and removed with nothing written
SeededAs(n, k, ps) ==
    LET m == IF k < n THEN k ELSE n
    IN  /\ procs' = SubSeq(ps, 1, m)
        /\ streams' = SubSeq(ps, 1, m)
        /\ \A i \in 1..m : Len(held'[ps[i]]) = 1 /\ wcount'[i] = 1
        /\ \A i \in (m + 1)..n :
             /\ status'[ps[i]] = "reaped"
             /\ held'[ps[i]] = <<>>
             /\ outq'[ps[i]] = <<>>
        /\ \A p \in Positions : p > m => wcount'[p] = 0

\* C14: after initial seeding of n workers from a source holding k records,
\* if k < n exactly k workers remain in the map, each with exactly one
\* record written to it, and the other n-k were hard-terminated, waited for
\* and removed without ever receiving a record; if k >= n all n remain; and
\* if k = 0 no worker remains, nothing is emitted and the run completes
\* normally.
C14_Seeding ==
    /\ [][pc = "seed" /\ pc' = "loop" =>
            /\ Len(procs) = n_procs
            /\ SeededAs(Len(procs), Len(data_stream), procs)]_vars
    /\ [](pc = "loop" /\ input = <<>> => procs = <<>>)
    /\ [](pc = "done" /\ input = <<>> /\ signals_recvd = 0 =>
            result = "completed" /\ items_processed = 0 /\ emitted = EmptyBag)

\* C14 witness: two workers were seeded from a source of one record; one
\* holds it, the other was reaped with nothing written to it
C14_Witness ==
    /\ pc = "loop"
    /\ n_procs = 2
    /\ Len(input) = 1
    /\ procs = <<1>>
    /\ Len(held[1]) = 1
    /\ status[2] = "reaped"
    /\ lines_read = 0

(* -------------------------------- C15 --------------------------------- *)
\* C15: once the first interrupt has been received no new worker process is
\* spawned for the rest of the run: broken-stream handling after that point
\* removes the dead worker and spawns no replacement.
C15_NoSpawnAfterInterrupt ==
    [][signals_recvd >= 1 =>
          /\ nextChild' = nextChild
          /\ Spawned' = Spawned
          /\ Range(procs') \subseteq Range(procs)
          /\ \A c \in Range(procs) \ Range(procs') : status'[c] = "reaped"]_vars

\* C15 witness: the consumer caught the first interrupt and went on, a
\* worker died after it, broken-stream handling removed it while records
\* were still in the source, and no replacement was spawned
C15_Witness ==
    /\ signals_recvd = 1
    /\ create
    /\ pc \in {"loop", "for"}
    /\ deaths = 1
    /\ dead_held # {}
    /\ \E c \in Children : status[c] = "reaped"
    /\ Len(procs) < n_procs
    /\ nextChild = n_procs + 1
    /\ data_stream # <<>>

(* -------------------------------- C16 --------------------------------- *)
\* C16: on the second and every later interrupt of a run every live child
\* process of the supervisor is hard-terminated by the signal handler; on
\* the first interrupt the handler terminates no worker.
C16_SecondInterrupt ==
    [][signals_recvd' # signals_recvd =>
          IF signals_recvd' > 1
          THEN \A c \in Children : status'[c] # "alive"
          ELSE \A c \in Children :
                   status'[c] = "terminated" => status[c] = "terminated"]_vars

(* -------------------------------- C17 --------------------------------- *)
\* C17: all three cleanup steps of run() (hard-terminate and wait for every
\* worker, restore the SIGINT handler saved at run start, stop and join the
\* observer thread) are completed on every exit path, whether the loop
\* ended normally, via one interrupt, or with a further interrupt arriving
\* while the cleanup itself is running.
C17_CleanupComplete ==
    pc = "done" =>
        /\ procs = <<>>
        /\ sigint_handler = "orig"
        /\ monitor_thread = "joined"

(* -------------------------------- C11 --------------------------------- *)
\* the run under the claim's assumptions: the supervisor thread runs on, the
\* consumer keeps iterating, and a worker that holds a record and does not
\* die writes its result line.  Nothing obliges a worker to die, a signal
\* to arrive or a readiness wait to time out.
FairSpec ==
    /\ Spec
    /\ WF_vars(Setup)
    /\ WF_vars(RunEnter)
    /\ WF_vars(SeedProcs)
    /\ WF_vars(Loop)
    /\ WF_vars(LoopStep)
    /\ WF_vars(Cleanup)
    /\ WF_vars(Restore)
    /\ WF_vars(StopMonitor)
    /\ \A c \in Children : WF_vars(WorkerHandle(c))

\* run() was entered and has been left
RunEnded == pc = "done"

MaxMemory == 16
MaxMemoryEstimate == 4
MaxCpu == 8
MaxCpuEstimate == 2
MaxExplicit == 2

Min(a, b) == IF a <= b THEN a ELSE b

\* a rounding that drops the fraction
round_down(a, b) == a \div b

\* Python 3's round(a / b) for a >= 0 and b > 0: the nearest integer, the
\* even one of the two when a / b lies halfway
round(a, b) ==
    LET q == a \div b
        r == a % b
    IN  IF 2 * r < b THEN q
        ELSE IF 2 * r > b THEN q + 1
        ELSE IF q % 2 = 0 THEN q ELSE q + 1

\* JobRunner.n_procs, lines 183-193; s.explicit is self._n_procs, the empty
\* sequence standing for None
JobRunner_n_procs(s) ==
    IF s.explicit # <<>> THEN s.explicit[1]
    ELSE LET m_n_procs == round(s.memory_lim, s.memory_estimate)
             c_n_procs == round(s.cpu_lim, s.cpu_estimate)
         IN  Max(Min(m_n_procs, c_n_procs), 1)

\* a runner that is constructed and then left alone
RunnerIdle ==
    /\ RunnerInit
    /\ n_procs = 1
    /\ input = <<>>
    /\ create

\* a runner about to answer n_procs, for every choice of its sizes
SizerInit ==
    /\ RunnerIdle
    /\ worker = <<>>
    /\ spawner = <<>>
    /\ mon = <<>>
    /\ attrlock = <<>>
    /\ sizer \in [explicit : {<<>>} \cup {<<k>> : k \in 0..MaxExplicit},
                  memory_lim : 0..MaxMemory,
                  memory_estimate : 1..MaxMemoryEstimate,
                  cpu_lim : 0..MaxCpu,
                  cpu_estimate : 1..MaxCpuEstimate,
                  ret : {<<>>}]

\* the call of n_procs
SizerCall ==
    /\ sizer # <<>>
    /\ sizer.ret = <<>>
    /\ sizer' = [sizer EXCEPT !.ret = <<JobRunner_n_procs(sizer)>>]
    /\ UNCHANGED <<runvars, worker, spawner, mon, attrlock>>

SizerNext == SizerCall

SizerSpec == SizerInit /\ [][SizerNext]_vars

\* q is an integer nearest to a / b
IsNearest(q, a, b) == 2 * a - b <= 2 * q * b /\ 2 * q * b <= 2 * a + b

\* C18: n_procs returns the explicit worker count when one was passed;
\* otherwise it returns max(1, min(round(memory_limit / memory_estimate),
\* round(cpu_limit / cpu_estimate))), which is always >= 1; for
\* memory_estimate 256 MiB, memory_limit 1 GiB, cpu_estimate 1 and
\* cpu_limit 8 the result is 4.
C18_NProcs ==
    (sizer # <<>> /\ sizer.ret # <<>>) =>
        LET r == sizer.ret[1]
        IN  IF sizer.explicit # <<>> THEN r = sizer.explicit[1]
            ELSE /\ r >= 1
                 /\ \E qm \in 0..MaxMemory, qc \in 0..MaxCpu :
                      /\ IsNearest(qm, sizer.memory_lim, sizer.memory_estimate)
                      /\ IsNearest(qc, sizer.cpu_lim, sizer.cpu_estimate)
                      /\ r = Max(1, Min(qm, qc))
                 /\ (/\ sizer.memory_estimate = 4
                     /\ sizer.memory_lim = 16
                     /\ sizer.cpu_estimate = 1
                     /\ sizer.cpu_lim = 8) => r = 4

\* C18 witness: the call with 256 MiB per worker of 1 GiB and 1 CPU per
\* worker of 8 has returned 4
C18_Witness ==
    /\ sizer # <<>>
    /\ sizer.explicit = <<>>
    /\ sizer.memory_estimate = 4
    /\ sizer.memory_lim = 16
    /\ sizer.cpu_estimate = 1
    /\ sizer.cpu_lim = 8
    /\ sizer.ret = <<4>>

(* ------------- C19, C20: the worker, handlers/python.py --------------- *)
\* how many lines the supervisor writes to the worker's stdin
MaxItems == 2

Lines == {"x", "y"}

\* what the user handler can return, as type and number: an int, a bool, a
\* float (in tenths), a str that spells an integer, a str that spells none,
\* None
ReturnValues ==
    {[t |-> "int", n |-> 0], [t |-> "int", n |-> 7], [t |-> "bool", n |-> 1],
     [t |-> "float", n |-> 79], [t |-> "str", n |-> 7],
     [t |-> "word", n |-> 0], [t |-> "None", n |-> 0]}

\* what the user handler can raise; GeneratorExit stands for the exceptions
\* that are a BaseException and not an Exception
Exceptions == {"ValueError", "GeneratorExit", "KeyboardInterrupt", "SystemExit"}

\* a worker that lets no exception of the handler through its except clause
ALWAYS_RAISE_all == Exceptions

\* handlers/python.py line 18
ALWAYS_RAISE == {"KeyboardInterrupt", "SystemExit"}

\* what the handler does with one record: return v or raise e
Behaviours ==
    [does : {"return"}, v : ReturnValues, e : {"none"}]
        \cup [does : {"raise"}, v : {[t |-> "None", n |-> 0]}, e : Exceptions]

\* a line on the worker's stdin: its text, whether the text is JSON, and
\* what the handler does when called with it
Items == [line : Lines, json : BOOLEAN, handler : Behaviours]

\* an int() that takes integers only
int_strict(v) ==
    IF v.t = "int" THEN [ok |-> TRUE, n |-> v.n] ELSE [ok |-> FALSE, n |-> 0]

\* Python's int(v): ok tells whether it returns, n is what it returns
int(v) ==
    CASE v.t \in {"int", "bool", "str"} -> [ok |-> TRUE, n |-> v.n]
      [] v.t = "float" -> [ok |-> TRUE, n |-> v.n \div 10]
      [] OTHER -> [ok |-> FALSE, n |-> 0]

\* handlers/python.py handle_item with the handler's behaviour spelled out:
\* raised tells whether an exception leaves handle_item, val is the dict
\* returned otherwise
handle_item_of(item) ==
    LET h == item.handler
        thrown == IF ~item.json THEN "ValueError"
                  ELSE IF h.does = "raise" THEN h.e ELSE "none"
        code == IF thrown # "none" THEN 1
                ELSE IF int(h.v).ok THEN int(h.v).n ELSE 0
    IN  [raised |-> thrown \in ALWAYS_RAISE,
         val |-> [data |-> item.line, exit |-> code]]

\* a worker whose spec was written to its stdin, followed by some records
WorkerInit ==
    /\ RunnerIdle
    /\ sizer = <<>>
    /\ spawner = <<>>
    /\ mon = <<>>
    /\ attrlock = <<>>
    /\ \E valid \in BOOLEAN :
       \E k \in 0..MaxItems :
       \E items \in [1..k -> Items] :
           worker = [pc |-> "start", spec_valid |-> valid, stdin |-> items,
                     handshake |-> "", payload |-> "", results |-> <<>>,
                     handled |-> <<>>]

\* main lines 179-186 and 192-194: validate the spec, answer OK or ERROR
WorkerStart ==
    /\ worker # <<>>
    /\ worker.pc = "start"
    /\ worker' = IF worker.spec_valid
                 THEN [worker EXCEPT !.pc = "reading", !.handshake = "OK"]
                 ELSE [worker EXCEPT !.pc = "exited", !.handshake = "ERROR",
                                     !.payload = JsonPayload]
    /\ UNCHANGED <<runvars, sizer, spawner, mon, attrlock>>

\* main lines 187-191: read the next line, print the result of handle_item;
\* an exception that leaves handle_item leaves main, and __main__ passes it
WorkerRead ==
    /\ worker # <<>>
    /\ worker.pc = "reading"
    /\ worker.stdin # <<>>
    /\ LET item == Head(worker.stdin)
           r == handle_item_of(item)
       IN  worker' = IF r.raised
                     THEN [worker EXCEPT !.pc = "exited",
                                         !.stdin = Tail(@),
                                         !.handled = Append(@, item)]
                     ELSE [worker EXCEPT !.stdin = Tail(@),
                                         !.handled = Append(@, item),
                                         !.results = Append(@, r.val)]
    /\ UNCHANGED <<runvars, sizer, spawner, mon, attrlock>>

\* main line 187 at end of file: the for loop ends and the worker exits
WorkerEof ==
    /\ worker # <<>>
    /\ worker.pc = "reading"
    /\ worker.stdin = <<>>
    /\ worker' = [worker EXCEPT !.pc = "exited"]
    /\ UNCHANGED <<runvars, sizer, spawner, mon, attrlock>>

WorkerNext ==
    \/ WorkerStart
    \/ WorkerRead
    \/ WorkerEof

WorkerSpec == WorkerInit /\ [][WorkerNext]_vars

\* the handler was called with the item and raised
Raised(item) == item.json /\ item.handler.does = "raise"

\* the handler was called with the item and returned
Returned(item) == item.json /\ item.handler.does = "return"

\* C19: for every record a worker handles, the exit field of its result
\* line is 1 when the user handler raised, 0 when the handler returned a
\* value that cannot be coerced to an integer, and otherwise the integer
\* the handler returned; the data field is the input line that produced
\* the result.
C19_ExitField ==
    worker # <<>> =>
        \A i \in DOMAIN worker.results :
            LET item == worker.handled[i]
                res == worker.results[i]
                v == item.handler.v
            IN  /\ res.data = item.line
                /\ Raised(item) => res.exit = 1
                /\ Returned(item) =>
                     res.exit = CASE v.t \in {"word", "None"} -> 0
                                  [] v.t = "float" -> 7
                                  [] OTHER -> v.n

\* C19 witness: the handler returned 0 for the first record and 7 for the
\* second, and the two result lines carry exit 0 and exit 7
C19_Witness ==
    /\ worker # <<>>
    /\ Len(worker.results) = 2
    /\ Returned(worker.handled[1])
    /\ worker.handled[1].handler.v = [t |-> "int", n |-> 0]
    /\ Returned(worker.handled[2])
    /\ worker.handled[2].handler.v = [t |-> "int", n |-> 7]
    /\ worker.results[1].exit = 0
    /\ worker.results[2].exit = 7
    /\ worker.results[1].data # worker.results[2].data

\* what C20 says of the record just handled: one result line with exit 1
\* was written for it and the worker is reading on
WroteExitOneAndGoesOn ==
    /\ Len(worker'.results) = Len(worker.results) + 1
    /\ worker'.results[Len(worker'.results)] =
           [data |-> Head(worker.stdin).line, exit |-> 1]
    /\ worker'.pc = "reading"
    /\ worker'.stdin = Tail(worker.stdin)

\* C20 as stated: an error raised by the user handler never ends the
\* worker: for every kind of exception the handler raises, the worker
\* writes exactly one result line with exit = 1 for that record and then
\* goes on to read and process the next record.
C20_Original ==
    [][(worker # <<>> /\ worker.pc = "reading" /\ worker.stdin # <<>>
            /\ Raised(Head(worker.stdin)))
        => WroteExitOneAndGoesOn]_vars

\* C20, amended: the same for every exception other than KeyboardInterrupt
\* and SystemExit; when the handler raises one of these two the worker
\* writes no result line for the record and exits.
C20_HandlerError ==
    [][(worker # <<>> /\ worker.pc = "reading" /\ worker.stdin # <<>>
            /\ Raised(Head(worker.stdin)))
        => IF Head(worker.stdin).handler.e \in {"KeyboardInterrupt", "SystemExit"}
           THEN worker'.results = worker.results /\ worker'.pc = "exited"
           ELSE WroteExitOneAndGoesOn]_vars

\* C20 witness: the handler raised on the first record, the worker wrote
\* exit 1 for it and has handled the next record as well
C20_Witness ==
    /\ worker # <<>>
    /\ Len(worker.results) = 2
    /\ Raised(worker.handled[1])
    /\ worker.handled[1].handler.e = "GeneratorExit"
    /\ worker.results[1].exit = 1
    /\ Returned(worker.handled[2])
    /\ worker.results[2].exit = 7

(* -------------------------------- C21 --------------------------------- *)
\* C21 as stated: at the start of every readiness wait every worker in the
\* map is a live process.
C21_Original ==
    [][pc # "loop" /\ pc' = "loop" =>
          \A c \in Range(procs') : status'[c] = "alive"]_vars

\* C21, amended: the worker map and the stream map always hold the same
\* keys; every worker of the map that is dead when the readiness wait
\* returns is among the streams it returns; and every such worker is
\* removed from both maps when the loop handles its stream, which it does
\* before the next wait.  (A worker that dies after the wait returned is
\* still in the map when the next wait starts.)
C21_DeadRemoved ==
    /\ [](procs = streams)
    /\ [][pc = "loop" /\ pc' = "for" =>
             /\ ready' # <<>>
             /\ \A c \in Range(procs) :
                  status[c] # "alive" => c \in Range(ready')]_vars
    /\ [][(/\ pc = "for"
           /\ ready' # ready
           /\ signals_recvd' = signals_recvd
           /\ status[Head(ready)] # "alive") =>
              /\ Head(ready) \notin Range(procs')
              /\ Head(ready) \notin Range(streams')]_vars
    /\ [][pc = "for" /\ pc' = "loop" => Tail(ready) = <<>>]_vars

\* C21 witness: of two workers one died, the wait returned its stream, the
\* loop removed it, and the other worker is still in the map
C21_Witness ==
    /\ pc = "loop"
    /\ n_procs = 2
    /\ deaths = 1
    /\ signals_recvd = 0
    /\ \E c \in 1..2 : status[c] = "reaped" /\ c \notin Range(procs)
    /\ \E c \in 1..2 : status[c] = "alive" /\ c \in Range(procs)
    /\ data_stream # <<>>

(* -------------------------------- C22 --------------------------------- *)
\* the step is one round of loop's for statement
IsLoopStep == pc = "for" /\ ready' # ready /\ signals_recvd' = signals_recvd

\* the step spawns a child whose handshake fails
IsFailedSpawn ==
    /\ nextChild \in Children
    /\ status[nextChild] = "unborn"
    /\ status'[nextChild] = "terminated"

\* C22: when a replacement spawn fails during broken-stream handling,
\* create becomes false and stays false until the run ends, so no later
\* worker death in that run triggers another spawn attempt; the surviving
\* workers stay in the map and continue to be read and re-seeded.
C22_RespawnFailure ==
    /\ [][IsLoopStep /\ IsFailedSpawn =>
             /\ ~create'
             /\ procs' = Without(procs, Head(ready))
             /\ \A c \in Range(procs') :
                  status'[c] = status[c] /\ held'[c] = held[c]]_vars
    /\ [][~create /\ pc \in {"seed", "loop", "for", "cleanup", "restore",
                             "stopmon", "done"} =>
             ~create' /\ nextChild' = nextChild /\ Spawned' = Spawned]_vars
    /\ [][(/\ IsLoopStep
           /\ ~create
           /\ status[Head(ready)] = "alive"
           /\ data_stream # <<>>) =>
              /\ Head(ready) \in Range(procs')
              /\ held'[Head(ready)] =
                     Append(held[Head(ready)], Head(data_stream))
              /\ items_processed' = items_processed + 1]_vars

\* C22 witness: both workers of a run died; the replacement of the first
\* failed its handshake, the second was removed with no spawn attempted
C22_Witness ==
    /\ ~create
    /\ signals_recvd = 0
    /\ n_procs = 2
    /\ deaths = 2
    /\ nextChild = 4
    /\ status[3] = "terminated"
    /\ status[1] = "reaped"
    /\ status[2] = "reaped"
    /\ lines_read >= 1

(* -------------------------------- C23 --------------------------------- *)
\* the step spawns a replacement that answers its handshake
IsReplacementUp ==
    /\ IsLoopStep
    /\ nextChild \in Children
    /\ status[nextChild] = "unborn"
    /\ status'[nextChild] \notin {"unborn", "terminated"}

\* C23: when broken-stream handling has spawned a replacement and seeding
\* it fails, because the source is exhausted or because the write to its
\* stdin raises, the replacement is hard-terminated and waited for and is
\* never inserted into the map; it is inserted only after a record was
\* written to it.
C23_ReplacementSeed ==
    [][IsReplacementUp =>
          IF nextChild \in Range(procs')
          THEN status'[nextChild] = "alive" /\ Len(held'[nextChild]) = 1
          ELSE status'[nextChild] = "reaped" /\ held'[nextChild] = <<>>]_vars

(* -------------------------------- C27 --------------------------------- *)
\* the supervisor of a runner constructed with maintain=False
NoMaintainInit == Init /\ ~create

NoMaintainSpec == NoMaintainInit /\ [][Next]_vars

\* C27: the replacement policy chosen when the runner is constructed
\* governs the run: with maintain=False no step of run() spawns a worker,
\* broken-stream handling removes the dead worker and that is all.
C27_NoReplacement ==
    [][(pc \in {"seed", "loop", "for"}) =>
          /\ nextChild' = nextChild
          /\ Spawned' = Spawned]_vars

(* -------------------------------- C26 --------------------------------- *)
\* the first line a new worker prints, as readline returns it
FirstLines == {"OK", "ok", "ERROR", ""}

\* create_process line 47: ok.strip().upper()
upper(line) == IF line = "ok" THEN "OK" ELSE line

\* the SIGINT handler installed in the parent when create_process is
\* called: Python's own before run(), handle_sigint inside run()
SigintHandlers == {"default_int_handler", "handle_sigint"}

\* a call of create_process, for every choice of its arguments and of what
\* the launch and the child do
SpawnerInit ==
    /\ RunnerIdle
    /\ sizer = <<>>
    /\ worker = <<>>
    /\ mon = <<>>
    /\ attrlock = <<>>
    /\ \E swap \in BOOLEAN :
       \E before \in SigintHandlers :
       \E launch \in {"ok", "raises"} :
       \E line \in FirstLines :
       \E spec \in {"{}", "{}\n"} :
           spawner = [pc |-> "enter", swap_sigint |-> swap, before |-> before,
                      sigint |-> before, handler |-> "None", Popen |-> launch,
                      spec |-> spec, readline |-> line, ret |-> <<>>]

\* create_process lines 23-25: install default_int_handler, keep the old one
SwapSigint ==
    /\ spawner # <<>>
    /\ spawner.pc = "enter"
    /\ spawner' = IF spawner.swap_sigint
                  THEN [spawner EXCEPT !.handler = spawner.sigint,
                                       !.sigint = "default_int_handler",
                                       !.pc = "Popen"]
                  ELSE [spawner EXCEPT !.pc = "Popen"]
    /\ UNCHANGED <<runvars, sizer, worker, mon, attrlock>>

\* create_process lines 27-35: subprocess.Popen returns, or raises and the
\* exception leaves create_process
Launch ==
    /\ spawner # <<>>
    /\ spawner.pc = "Popen"
    /\ spawner' = [spawner EXCEPT !.pc = IF spawner.Popen = "ok"
                                         THEN "launched" ELSE "raised"]
    /\ UNCHANGED <<runvars, sizer, worker, mon, attrlock>>

\* create_process lines 37-38: put the kept handler back
RestoreSigint ==
    /\ spawner # <<>>
    /\ spawner.pc = "launched"
    /\ spawner' = IF spawner.swap_sigint
                  THEN [spawner EXCEPT !.sigint = spawner.handler,
                                       !.pc = "handshake"]
                  ELSE [spawner EXCEPT !.pc = "handshake"]
    /\ UNCHANGED <<runvars, sizer, worker, mon, attrlock>>

\* create_process lines 40-59: write the spec with its newline, read the
\* first line, return (True, popen) or (False, err)
Handshake ==
    /\ spawner # <<>>
    /\ spawner.pc = "handshake"
    /\ spawner' = [spawner EXCEPT
                     !.spec = IF spawner.spec = "{}" THEN "{}\n" ELSE @,
                     !.ret = <<upper(spawner.readline) = "OK">>,
                     !.pc = "returned"]
    /\ UNCHANGED <<runvars, sizer, worker, mon, attrlock>>

SpawnerNext == SwapSigint \/ Launch \/ RestoreSigint \/ Handshake

SpawnerSpec == SpawnerInit /\ [][SpawnerNext]_vars

\* C26: when create_process has finished, by returning success, by
\* returning a handshake failure or by the launch raising, the SIGINT
\* handler of the parent is the one installed before the call; and
\* default_int_handler replaces another handler only during the launch.
C26_HandlerUnchanged ==
    spawner # <<>> =>
        /\ spawner.pc \in {"returned", "raised"} =>
               spawner.sigint = spawner.before
        /\ spawner.sigint # spawner.before =>
               spawner.pc \in {"Popen", "launched"}

\* the part that holds: a create_process that returns leaves the handler
\* as it found it
C26_ReturnRestores ==
    (spawner # <<>> /\ spawner.pc = "returned") =>
        spawner.sigint = spawner.before

(* -------------------------------- C25 --------------------------------- *)
\* how many samples the monitor thread is followed for
MaxSamples == 3

\* a runner entering run(monitor=True), with or without a stats collector;
\* __init__ line 164 leaves _running False
MonitorInit ==
    /\ RunnerIdle
    /\ sizer = <<>>
    /\ worker = <<>>
    /\ spawner = <<>>
    /\ attrlock = <<>>
    /\ \E stats \in {"None", "StatsCollector"} :
           mon = [pc |-> "run", running |-> FALSE, saved |-> FALSE,
                  thread |-> "unstarted", stats |-> stats, samples |-> 0,
                  ints |-> 0, joined |-> FALSE]

\* monitor_thread.is_alive()
is_alive == mon.thread \notin {"unstarted", "ended"}

\* run lines 447-450: create the thread, set running, start it
MonitorStart ==
    /\ mon # <<>>
    /\ mon.pc = "run"
    /\ mon' = [mon EXCEPT !.running = TRUE, !.thread = "started",
                          !.pc = "loop"]
    /\ UNCHANGED <<runvars, sizer, worker, spawner, attrlock>>

\* monitor lines 398-399 and 401: leave when there is no collector; else
\* read self.running and sample or leave
monitor_check ==
    /\ mon # <<>>
    /\ \/ /\ mon.thread = "started"
          /\ mon' = [mon EXCEPT !.thread = IF mon.stats = "None"
                                           THEN "ended" ELSE "while"]
       \/ /\ mon.thread = "while"
          /\ mon.running => mon.samples < MaxSamples
          /\ mon' = [mon EXCEPT !.thread = IF mon.running
                                           THEN "update_stats" ELSE "ended"]
    /\ UNCHANGED <<runvars, sizer, worker, spawner, attrlock>>

\* monitor lines 402-408: update_stats, then sleep for the interval
monitor_sample ==
    /\ mon # <<>>
    /\ mon.thread = "update_stats"
    /\ mon' = [mon EXCEPT !.samples = @ + 1, !.thread = "while"]
    /\ UNCHANGED <<runvars, sizer, worker, spawner, attrlock>>

\* handle_sigint lines 305-308 entered from the loop or from the cleanup:
\* when the thread is alive, kill_monitoring_thread() runs up to line 421
MonitorInterrupt ==
    /\ mon # <<>>
    /\ mon.pc \in {"loop", "interrupted"}
    /\ mon.ints < MaxInts
    /\ mon' = IF is_alive
              THEN [mon EXCEPT !.ints = @ + 1, !.saved = mon.running,
                               !.running = FALSE, !.pc = "kill"]
              ELSE [mon EXCEPT !.ints = @ + 1, !.pc = "interrupted"]
    /\ UNCHANGED <<runvars, sizer, worker, spawner, attrlock>>

\* kill_monitoring_thread line 425 with wait=False, then handle_sigint
\* raises KeyboardInterrupt (line 308)
KillRestore ==
    /\ mon # <<>>
    /\ mon.pc = "kill"
    /\ mon' = [mon EXCEPT !.running = mon.saved, !.pc = "interrupted"]
    /\ UNCHANGED <<runvars, sizer, worker, spawner, attrlock>>

\* run lines 463-464: kill_monitoring_thread(wait=True) up to line 421
RunFinally ==
    /\ mon # <<>>
    /\ mon.pc \in {"loop", "interrupted"}
    /\ mon' = [mon EXCEPT !.saved = mon.running, !.running = FALSE,
                          !.pc = "join"]
    /\ UNCHANGED <<runvars, sizer, worker, spawner, attrlock>>

\* kill_monitoring_thread lines 422-425 with wait=True: join() returns once
\* the thread has ended, the finally clause assigns running; run line 465
Join ==
    /\ mon # <<>>
    /\ mon.pc = "join"
    /\ mon.thread = "ended"
    /\ mon' = [mon EXCEPT !.running = mon.saved, !.joined = TRUE,
                          !.pc = "exited"]
    /\ UNCHANGED <<runvars, sizer, worker, spawner, attrlock>>

MonitorNext ==
    \/ MonitorStart
    \/ monitor_check
    \/ monitor_sample
    \/ MonitorInterrupt
    \/ KillRestore
    \/ RunFinally
    \/ Join

MonitorSpec == MonitorInit /\ [][MonitorNext]_vars

\* C25: once the first interrupt has been handled the running flag is
\* false from then on, and when run() has exited the monitor thread has
\* ended and the running flag is false.
C25_ObserverStopped ==
    mon # <<>> =>
        /\ (mon.ints > 0 /\ mon.pc \in {"interrupted", "join", "exited"}) =>
               ~mon.running
        /\ mon.pc = "exited" => (mon.thread = "ended" /\ ~mon.running)

\* the part that holds: when run() has exited the monitor thread has ended
C25_JoinedAtExit ==
    (mon # <<>> /\ mon.pc = "exited") => mon.thread = "ended"

\* the monitor thread samples again after the first interrupt was handled
C25_SamplesAfterInterrupt ==
    /\ mon # <<>>
    /\ mon.ints > 0
    /\ mon.pc = "interrupted"
    /\ mon.thread = "update_stats"

(* -------------------------------- C24 --------------------------------- *)
\* the keys of the worker map: the stdout descriptors of the workers and of
\* one replacement
Fds == 1..(MaxProcs + 1)

\* the main thread inside run() and the monitor thread, with the map as
\* setup left it; holder is who holds attrlocks['_procs'], dicts are the
\* dict objects and ref is the one self._procs is bound to
LockInit ==
    /\ RunnerIdle
    /\ sizer = <<>>
    /\ worker = <<>>
    /\ spawner = <<>>
    /\ mon = <<>>
    /\ \E n \in 1..MaxProcs :
           attrlock = [holder |-> "none", ref |-> 1, dicts |-> <<1..n, {}>>,
                       main |-> "idle", op |-> "none", fn |-> 0,
                       monitor |-> "idle", it |-> 0, size |-> 0,
                       seen |-> {}]

\* the contents of the worker map: the dict self._procs is bound to
procs_of(a) == a.dicts[a.ref]

\* locked_attr_funcs _get, line 46, called by the main thread for
\* self.procs[fn] = proc (handle_broken_stream 333) or del self.procs[fn]
\* (handle_broken_stream 324, seed_procs 391): take the lock
MainGet ==
    /\ attrlock # <<>>
    /\ attrlock.main = "idle"
    /\ attrlock.holder = "none"
    /\ \E fn \in Fds :
           attrlock' = [attrlock EXCEPT
                          !.holder = "main", !.main = "_get", !.fn = fn,
                          !.op = IF fn \in procs_of(attrlock) THEN "del"
                                 ELSE "setitem"]
    /\ UNCHANGED <<runvars, sizer, worker, spawner, mon>>

\* _get line 47: return the dict, which leaves the with block and gives
\* the lock back
MainReturn ==
    /\ attrlock # <<>>
    /\ attrlock.main = "_get"
    /\ attrlock' = [attrlock EXCEPT !.holder = "none", !.main = "dict"]
    /\ UNCHANGED <<runvars, sizer, worker, spawner, mon>>

\* the statement that called the getter goes on: the insert or the delete
\* on the dict it was given
MainMutate ==
    /\ attrlock # <<>>
    /\ attrlock.main = "dict"
    /\ attrlock' = [attrlock EXCEPT
                      !.dicts[attrlock.ref] =
                          IF attrlock.op = "del" THEN @ \ {attrlock.fn}
                          ELSE @ \cup {attrlock.fn},
                      !.main = "idle", !.op = "none", !.fn = 0]
    /\ UNCHANGED <<runvars, sizer, worker, spawner, mon>>

\* locked_attr_funcs _set, lines 50-51, called by run line 458
\* (self.procs = {}): take the lock
MainSet ==
    /\ attrlock # <<>>
    /\ attrlock.main = "idle"
    /\ attrlock.holder = "none"
    /\ attrlock' = [attrlock EXCEPT !.holder = "main", !.main = "_set"]
    /\ UNCHANGED <<runvars, sizer, worker, spawner, mon>>

\* _set line 51: bind self._procs to the new, empty dict and give the lock
\* back; run() ends
MainAssign ==
    /\ attrlock # <<>>
    /\ attrlock.main = "_set"
    /\ attrlock' = [attrlock EXCEPT !.holder = "none", !.ref = 2,
                                    !.main = "done"]
    /\ UNCHANGED <<runvars, sizer, worker, spawner, mon>>

\* update_stats line 394, self.procs: the getter takes the lock
MonitorGet ==
    /\ attrlock # <<>>
    /\ attrlock.monitor \in {"idle", "RuntimeError"}
    /\ attrlock.holder = "none"
    /\ attrlock' = [attrlock EXCEPT !.holder = "monitor",
                                    !.monitor = "_get"]
    /\ UNCHANGED <<runvars, sizer, worker, spawner, mon>>

\* _get line 47 returns the dict and gives the lock back; .values() starts
\* an iteration over that dict, which remembers its size
MonitorReturn ==
    /\ attrlock # <<>>
    /\ attrlock.monitor = "_get"
    /\ attrlock' = [attrlock EXCEPT !.holder = "none", !.monitor = "for",
                                    !.it = attrlock.ref,
                                    !.size = Cardinality(procs_of(attrlock)),
                                    !.seen = {}]
    /\ UNCHANGED <<runvars, sizer, worker, spawner, mon>>

\* update_stats line 394, one step of the comprehension: the iterator
\* raises RuntimeError when the dict has changed size (monitor catches it,
\* lines 406-407), else gives the next value or ends
MonitorIterate ==
    /\ attrlock # <<>>
    /\ attrlock.monitor = "for"
    /\ LET dict == attrlock.dicts[attrlock.it]
       IN  IF Cardinality(dict) # attrlock.size
           THEN attrlock' = [attrlock EXCEPT !.monitor = "RuntimeError",
                                             !.it = 0, !.size = 0,
                                             !.seen = {}]
           ELSE IF dict \subseteq attrlock.seen
                THEN attrlock' = [attrlock EXCEPT !.monitor = "idle",
                                                  !.it = 0, !.size = 0,
                                                  !.seen = {}]
                ELSE \E fn \in dict \ attrlock.seen :
                         attrlock' = [attrlock EXCEPT !.seen = @ \cup {fn}]
    /\ UNCHANGED <<runvars, sizer, worker, spawner, mon>>

LockNext ==
    \/ MainGet
    \/ MainReturn
    \/ MainMutate
    \/ MainSet
    \/ MainAssign
    \/ MonitorGet
    \/ MonitorReturn
    \/ MonitorIterate

LockSpec == LockInit /\ [][LockNext]_vars

\* C24: the main thread changes the worker map only while it holds the
\* map's lock, the monitor thread reads the map's contents only while it
\* holds the lock, and the monitor thread never finds the map changed in
\* the middle of its iteration.
C24_MapLocked ==
    /\ [][attrlock # <<>> =>
            /\ procs_of(attrlock') # procs_of(attrlock) =>
                   attrlock.holder = "main"
            /\ (/\ attrlock.monitor = "for"
                /\ \/ attrlock'.seen # attrlock.seen
                   \/ attrlock'.monitor # "for") =>
                   attrlock.holder = "monitor"]_vars
    /\ [](attrlock # <<>> => attrlock.monitor # "RuntimeError")

\* the part that holds: replacing the whole map (run line 458) is done
\* with the lock held
C24_AssignLocked ==
    [][(attrlock # <<>> /\ attrlock.main = "_set") =>
           attrlock.holder = "main"]_vars

\* the monitor thread is in the middle of its iteration when the main
\* thread deletes an entry
C24_MutatedWhileIterating ==
    /\ attrlock # <<>>
    /\ attrlock.monitor = "for"
    /\ attrlock.seen # {}
    /\ Cardinality(attrlock.dicts[attrlock.it]) < attrlock.size

====
